---- MODULE Spec2Model ----
(***************************************************************************)
(* A model of the history_rag repository:                                  *)
(*   - scraper.py     PresidencyDocumentScraper (the crawl loop, the file   *)
(*                    naming helpers, the file writes)                      *)
(*   - Ollama_RAG.py  DocxRAGSystem (ingestion, index construction with its *)
(*                    fallback, query) and main's interactive loop          *)
(*   - Open_AI_RAG.py load_docx_texts_from_folder                           *)
(* The three scripts share no runtime, so each has its own specification:  *)
(* SpecScraper, SpecRAG, SpecIngest, and SpecSanitize for the pure          *)
(* sanitize_filename.  The browser, the file system, the index backend and *)
(* the text-generation service are the environment: every outcome they can *)
(* produce is a nondeterministic choice of the action that calls them.     *)
(* Strings that the code inspects are sequences of one-character strings.  *)
(***************************************************************************)
EXTENDS Integers, Sequences, FiniteSets, TLC

VARIABLES
  \* ---- scraper.py: PresidencyDocumentScraper.start_scraping ----
  pc,            \* position in start_scraping
  current_page,  \* the local current_page
  linksLeft,     \* links of document_links the for loop has yet to take
  timedOut,      \* get_document_links of the current page ended in TimeoutException
  location,      \* what the browser shows
  files,         \* the output directory: file name -> file content
  savedCount,    \* number of completed writes ("Saved document to" log lines)
  logged,        \* the log lines of the most recent step
  last,          \* what the per-document iteration just run did
  lastStep,      \* the most recent step of start_scraping
  outcome,       \* "running", "Done" (loop broke) or "Error" (outer except)
  cleanupCount,  \* calls of cleanup()
  quitCalls,     \* calls of driver.quit()
  \* ---- sanitize_filename as a pure function ----
  sanPc, sanIn, sanOnce, sanTwice,
  \* ---- Ollama_RAG.py: DocxRAGSystem and main ----
  ragPc,         \* position in main
  folder,        \* the directory tree behind folder_path
  documents,     \* self.documents
  retriever,     \* self.retriever: "None", "retriever", or "unset"
  chain,         \* self.chain
  initError,     \* the exception that left __init__, or "none"
  indexFailure,  \* why the index could not be built, or "none"
  lastLine,      \* the line the last input() returned
  lastQuery,     \* what the last call of query did
  printed,       \* what the last loop iteration printed
  prompts,       \* number of input() calls so far
  exitedBy,      \* how main ended: "none", "init_error", "quit", "input_error"
  \* ---- ingestion entry points ----
  ingPc, ingTree, ingEntry, ingResult

scraperVars == <<pc, current_page, linksLeft, timedOut, location, files,
                 savedCount, logged, last, lastStep, outcome, cleanupCount,
                 quitCalls>>
sanVars == <<sanPc, sanIn, sanOnce, sanTwice>>
ragVars == <<ragPc, folder, documents, retriever, chain, initError,
             indexFailure, lastLine, lastQuery, printed, prompts, exitedBy>>
ingVars == <<ingPc, ingTree, ingEntry, ingResult>>
vars == <<scraperVars, sanVars, ragVars, ingVars>>

(***************************************************************************)
(* Bounds of the model.                                                    *)
(***************************************************************************)
MaxPages == 2      \* listing pages of the site
MaxLinks == 2      \* document links on one listing page
MaxTailLen == 2    \* free characters at the end of a sanitize_filename input
MaxDirs == 2       \* directories os.walk yields
MaxFilesPerDir == 2
MaxPrompts == 3    \* input() calls of one run of main

(***************************************************************************)
(* Strings.                                                                *)
(***************************************************************************)
Whitespace == {" ", "\n", "\r", "\t"}

RECURSIVE LStrip(_)
LStrip(s) ==
  IF s # <<>> /\ Head(s) \in Whitespace THEN LStrip(Tail(s)) ELSE s

RECURSIVE RStrip(_)
RStrip(s) ==
  IF s # <<>> /\ s[Len(s)] \in Whitespace
  THEN RStrip(SubSeq(s, 1, Len(s) - 1))
  ELSE s

\* str.strip()
Strip(s) == RStrip(LStrip(s))

\* str.endswith(suffix)
EndsWith(s, suffix) ==
  /\ Len(s) >= Len(suffix)
  /\ SubSeq(s, Len(s) - Len(suffix) + 1, Len(s)) = suffix

LowerChar(c) ==
  CASE c = "Q" -> "q"
    [] c = "U" -> "u"
    [] c = "I" -> "i"
    [] c = "T" -> "t"
    [] c = "H" -> "h"
    [] OTHER -> c

\* str.lower()
Lower(s) == [i \in 1..Len(s) |-> LowerChar(s[i])]

(***************************************************************************)
(* scraper.py: the file naming helpers.                                    *)
(***************************************************************************)
\* the character class of the re.sub in sanitize_filename
ReservedChars == {"<", ">", ":", "\"", "/", "\\", "|", "?", "*"}

\* sanitized[:240]
TruncLen == 240

\* sanitize_filename without the length limit of line 49
sanitize_filename_no_truncation(filename) ==
  [i \in 1..Len(filename) |->
     IF filename[i] \in ReservedChars THEN "_"
     ELSE IF filename[i] \in {"\n", "\r"} THEN " "
     ELSE filename[i]]

sanitize_filename(filename) ==
  LET subbed == [i \in 1..Len(filename) |->
                   IF filename[i] \in ReservedChars THEN "_" ELSE filename[i]]
      sanitized == [i \in 1..Len(subbed) |->
                   IF subbed[i] \in {"\n", "\r"} THEN " " ELSE subbed[i]]
  IN IF Len(sanitized) > TruncLen THEN SubSeq(sanitized, 1, TruncLen)
     ELSE sanitized

\* datetime.strptime(date_str, '%B %d, %Y'): a date text is the token
\* sequence <<month word, day, year>> when it has the shape "W D, Y", and a
\* one-token sequence otherwise.
MonthNumber ==
  [m \in {"January", "February", "March", "April", "May", "June", "July",
          "August", "September", "October", "November", "December"} |->
     CASE m = "January" -> 1 [] m = "February" -> 2 [] m = "March" -> 3
       [] m = "April" -> 4 [] m = "May" -> 5 [] m = "June" -> 6
       [] m = "July" -> 7 [] m = "August" -> 8 [] m = "September" -> 9
       [] m = "October" -> 10 [] m = "November" -> 11 [] m = "December" -> 12]

IsLeap(y) == (y % 4 = 0 /\ y % 100 # 0) \/ y % 400 = 0

DaysInMonth(m, y) ==
  IF m = 2 THEN (IF IsLeap(y) THEN 29 ELSE 28)
  ELSE IF m \in {4, 6, 9, 11} THEN 30 ELSE 31

Parses(date_str) ==
  /\ Len(date_str) = 3
  /\ date_str[1] \in DOMAIN MonthNumber
  /\ date_str[3] \in 1..9999
  /\ date_str[2] \in 1..DaysInMonth(MonthNumber[date_str[1]], date_str[3])

\* "0000-00-00"
SentinelDate == <<0, 0, 0>>

\* convert_date_format with datetime.min in place of the sentinel
convert_date_format_min_date(date_str) ==
  IF Parses(date_str)
  THEN <<date_str[3], MonthNumber[date_str[1]], date_str[2]>>
  ELSE <<1, 1, 1>>

\* the ISO date as <<year, month, day>>
convert_date_format(date_str) ==
  IF Parses(date_str)
  THEN <<date_str[3], MonthNumber[date_str[1]], date_str[2]>>
  ELSE SentinelDate

\* values of the other scripts' variables before they run
NoChain == [kind |-> "unset", context |-> <<>>]
NoQuery == [asked |-> FALSE, llm |-> "not_invoked", generated |-> "",
            result |-> "none", text |-> ""]
NoResult == [kind |-> "none", value |-> <<>>]

(***************************************************************************)
(* scraper.py: what the browser can show.                                  *)
(***************************************************************************)
\* link.text of a document link, before .strip()
ElementTexts == {<<" ", "a", ":">>, <<"a", "_", "\n">>}

\* date_element.text.strip(), as tokens
DateTexts == {<<"January", 20, 2021>>, <<"February", 30, 2021>>,
              <<"not a date">>}

NoDate == <<"NO_DATE">>
NoContent == "NO CONTENT FOUND"
Bodies == {"body"}

\* The environment of one extract_and_save_document call: whether the
\* content element appears within the wait for field-docs-content, what the
\* two find_element calls give after it, and whether open(filepath, 'w')
\* succeeds (would succeed, when it is not reached).
ExtractEnvs ==
  [waitOk : {FALSE}, datePresent : {FALSE}, dateText : {NoDate},
   contentPresent : {FALSE}, body : {NoContent}, openOk : BOOLEAN]
  \cup
  [waitOk : {TRUE}, datePresent : {TRUE}, dateText : DateTexts,
   contentPresent : {TRUE}, body : Bodies, openOk : BOOLEAN]
  \cup
  [waitOk : {TRUE}, datePresent : {FALSE}, dateText : {NoDate},
   contentPresent : {TRUE}, body : Bodies, openOk : BOOLEAN]
  \cup
  [waitOk : {TRUE}, datePresent : {TRUE}, dateText : DateTexts,
   contentPresent : {FALSE}, body : {NoContent}, openOk : BOOLEAN]
  \cup
  [waitOk : {TRUE}, datePresent : {FALSE}, dateText : {NoDate},
   contentPresent : {FALSE}, body : {NoContent}, openOk : BOOLEAN]

\* What driver.back() does after a document, and what the reload in the
\* per-document handler does when it is reached.
Navigations ==
  {[backOk |-> TRUE, reloadOk |-> TRUE],
   [backOk |-> FALSE, reloadOk |-> TRUE],
   [backOk |-> FALSE, reloadOk |-> FALSE]}

\* base_url + f"?page={current_page}"
ReloadUrl(page) == <<"base_url?page=", page>>

NoExtract == [status |-> "not_run", datePresent |-> FALSE,
              dateParses |-> FALSE, contentPresent |-> FALSE,
              openOk |-> FALSE]

NoLast == [raised |-> "none", extract |-> NoExtract, reload |-> "none"]

(***************************************************************************)
(* scraper.py: extract_and_save_document, as the effect it has on the      *)
(* output directory and the log.                                           *)
(***************************************************************************)
extract_and_save_document(link_text, e, dir) ==
  IF ~e.waitOk
  THEN [files |-> dir, saved |-> 0,
        log |-> <<"Timeout waiting for document content">>,
        info |-> [status |-> "timeout", datePresent |-> FALSE,
                  dateParses |-> FALSE, contentPresent |-> FALSE,
                  openOk |-> e.openOk]]
  ELSE
    LET date == IF e.datePresent THEN e.dateText ELSE NoDate
        formatted_date == IF e.datePresent
                          THEN convert_date_format(e.dateText)
                          ELSE SentinelDate
        dateLog == IF e.datePresent /\ ~Parses(e.dateText)
                   THEN <<"Error parsing date">> ELSE <<>>
        filename == [date |-> formatted_date,
                     title |-> sanitize_filename(link_text)]
        content == IF e.contentPresent THEN e.body ELSE NoContent
        written == [date |-> date, title |-> link_text, body |-> content]
        info == [status |-> IF e.openOk THEN "saved" ELSE "error",
                 datePresent |-> e.datePresent,
                 dateParses |-> e.datePresent /\ Parses(e.dateText),
                 contentPresent |-> e.contentPresent,
                 openOk |-> e.openOk]
    IN IF e.openOk
       THEN [files |-> [n \in DOMAIN dir \cup {filename} |->
                          IF n = filename THEN written ELSE dir[n]],
             saved |-> 1,
             log |-> dateLog \o <<"Saved document to">>,
             info |-> info]
       ELSE [files |-> dir, saved |-> 0,
             log |-> dateLog \o <<"Error saving document">>,
             info |-> info]

(***************************************************************************)
(* scraper.py: start_scraping.                                             *)
(***************************************************************************)
\* the outer except without the finally clause
FatalSkipsCleanup(msgs) ==
  /\ pc' = "returned"
  /\ outcome' = "Error"
  /\ logged' = msgs \o <<"Fatal error">>

\* the outer `except Exception`, then on to the finally clause
Fatal(msgs) ==
  /\ pc' = "finally"
  /\ outcome' = "Error"
  /\ logged' = msgs \o <<"Fatal error">>

\* driver.get(base_url); current_page = 1
StartOk ==
  /\ UNCHANGED <<sanVars, ragVars, ingVars>>
  /\ pc = "start"
  /\ pc' = "listing"
  /\ current_page' = 1
  /\ location' = <<"base_url">>
  /\ logged' = <<>>
  /\ lastStep' = "start"
  /\ UNCHANGED <<linksLeft, timedOut, files, savedCount, last, outcome,
                 cleanupCount, quitCalls>>

StartRaises ==
  /\ UNCHANGED <<sanVars, ragVars, ingVars>>
  /\ pc = "start"
  /\ Fatal(<<>>)
  /\ location' = <<"unknown">>
  /\ lastStep' = "start"
  /\ UNCHANGED <<current_page, linksLeft, timedOut, files, savedCount,
                 last, cleanupCount, quitCalls>>

\* get_document_links returned the elements it waited for
GetLinksFound ==
  /\ UNCHANGED <<sanVars, ragVars, ingVars>>
  /\ pc = "listing"
  /\ \E n \in 1..MaxLinks : linksLeft' = n
  /\ timedOut' = FALSE
  /\ pc' = "docs"
  /\ logged' = <<"Processing page">>
  /\ lastStep' = "get_links"
  /\ last' = NoLast
  /\ UNCHANGED <<current_page, location, files, savedCount, outcome,
                 cleanupCount, quitCalls>>

\* get_document_links without its except clause
GetLinksTimeoutIsFatal ==
  /\ UNCHANGED <<sanVars, ragVars, ingVars>>
  /\ pc = "listing"
  /\ linksLeft' = 0
  /\ timedOut' = TRUE
  /\ Fatal(<<"Processing page">>)
  /\ lastStep' = "get_links"
  /\ last' = NoLast
  /\ UNCHANGED <<current_page, location, files, savedCount,
                 cleanupCount, quitCalls>>

\* get_document_links: TimeoutException, logged, []
GetLinksTimeout ==
  /\ UNCHANGED <<sanVars, ragVars, ingVars>>
  /\ pc = "listing"
  /\ linksLeft' = 0
  /\ timedOut' = TRUE
  /\ pc' = "docs"
  /\ logged' = <<"Processing page", "Timeout waiting for document links">>
  /\ lastStep' = "get_links"
  /\ last' = NoLast
  /\ UNCHANGED <<current_page, location, files, savedCount, outcome,
                 cleanupCount, quitCalls>>

\* get_document_links: an exception other than TimeoutException
GetLinksRaises ==
  /\ UNCHANGED <<sanVars, ragVars, ingVars>>
  /\ pc = "listing"
  /\ Fatal(<<"Processing page">>)
  /\ timedOut' = FALSE
  /\ lastStep' = "get_links"
  /\ UNCHANGED <<current_page, linksLeft, location, files,
                 savedCount, last, cleanupCount, quitCalls>>

\* the per-document except without the reload
HandlerWithoutReload(msgs, info, raisedAt, reloadOk) ==
  /\ last' = [raised |-> raisedAt, extract |-> info, reload |-> "none"]
  /\ linksLeft' = linksLeft - 1
  /\ logged' = msgs \o <<"Error processing document">>
  /\ UNCHANGED <<pc, outcome, location>>

\* the per-document `except Exception`: log, reload the listing page at
\* current_page, continue; the reload itself is inside the outer try only
Handler(msgs, info, raisedAt, reloadOk) ==
  /\ last' = [raised |-> raisedAt, extract |-> info,
              reload |-> IF reloadOk THEN "ok" ELSE "raised"]
  /\ IF reloadOk
     THEN /\ location' = ReloadUrl(current_page)
          /\ linksLeft' = linksLeft - 1
          /\ logged' = msgs \o <<"Error processing document">>
          /\ UNCHANGED <<pc, outcome>>
     ELSE /\ location' = <<"unknown">>
          /\ Fatal(msgs \o <<"Error processing document">>)
          /\ UNCHANGED linksLeft

\* link.text or link.click() raises
DocLinkRaises ==
  /\ UNCHANGED <<sanVars, ragVars, ingVars>>
  /\ pc = "docs"
  /\ linksLeft > 0
  /\ \E reloadOk \in BOOLEAN : Handler(<<>>, NoExtract, "link", reloadOk)
  /\ lastStep' = "doc"
  /\ UNCHANGED <<current_page, timedOut, files, savedCount,
                 cleanupCount, quitCalls>>

\* the link is clicked, extract_and_save_document runs, driver.back()
DocVisited ==
  /\ UNCHANGED <<sanVars, ragVars, ingVars>>
  /\ pc = "docs"
  /\ linksLeft > 0
  /\ \E text \in ElementTexts, e \in ExtractEnvs, nav \in Navigations :
       LET link_text == Strip(text)
           r == extract_and_save_document(link_text, e, files)
       IN /\ files' = r.files
          /\ savedCount' = savedCount + r.saved
          /\ IF nav.backOk
             THEN /\ last' = [raised |-> "none", extract |-> r.info,
                              reload |-> "none"]
                  /\ location' = <<"listing">>
                  /\ linksLeft' = linksLeft - 1
                  /\ logged' = r.log
                  /\ UNCHANGED <<pc, outcome>>
             ELSE Handler(r.log, r.info, "back", nav.reloadOk)
  /\ lastStep' = "doc"
  /\ UNCHANGED <<current_page, timedOut, cleanupCount, quitCalls>>

\* go_to_next_page: the next link is found and clicked
NextPageAdvances ==
  /\ UNCHANGED <<sanVars, ragVars, ingVars>>
  /\ pc = "docs"
  /\ linksLeft = 0
  /\ current_page < MaxPages
  /\ current_page' = current_page + 1
  /\ pc' = "listing"
  /\ location' = <<"listing">>
  /\ logged' = <<>>
  /\ lastStep' = "next_page"
  /\ last' = NoLast
  /\ UNCHANGED <<linksLeft, timedOut, files, savedCount, outcome,
                 cleanupCount, quitCalls>>

\* go_to_next_page: NoSuchElementException, False, break
NextPageMissing ==
  /\ UNCHANGED <<sanVars, ragVars, ingVars>>
  /\ pc = "docs"
  /\ linksLeft = 0
  /\ pc' = "finally"
  /\ outcome' = "Done"
  /\ logged' = <<"No more pages to process">>
  /\ lastStep' = "next_page"
  /\ last' = NoLast
  /\ UNCHANGED <<current_page, linksLeft, timedOut, location, files,
                 savedCount, cleanupCount, quitCalls>>

\* go_to_next_page: next_link.click() raises
NextPageRaises ==
  /\ UNCHANGED <<sanVars, ragVars, ingVars>>
  /\ pc = "docs"
  /\ linksLeft = 0
  /\ Fatal(<<>>)
  /\ lastStep' = "next_page"
  /\ last' = NoLast
  /\ UNCHANGED <<current_page, linksLeft, timedOut, location, files,
                 savedCount, cleanupCount, quitCalls>>

\* finally: cleanup(); driver.quit() may raise, which cleanup logs
Cleanup ==
  /\ UNCHANGED <<sanVars, ragVars, ingVars>>
  /\ pc = "finally"
  /\ pc' = "returned"
  /\ cleanupCount' = cleanupCount + 1
  /\ quitCalls' = quitCalls + 1
  /\ location' = <<"closed">>
  /\ \E quitOk \in BOOLEAN :
       logged' = IF quitOk THEN <<>> ELSE <<"Error during cleanup">>
  /\ lastStep' = "cleanup"
  /\ UNCHANGED <<current_page, linksLeft, timedOut, files, savedCount,
                 last, outcome>>

ScraperInit ==
  /\ sanPc = "idle" /\ sanIn = <<>> /\ sanOnce = <<>> /\ sanTwice = <<>>
  /\ ragPc = "idle" /\ folder = <<>> /\ documents = <<>>
  /\ retriever = "unset" /\ chain = NoChain /\ initError = "none"
  /\ indexFailure = "none" /\ lastLine = <<>> /\ lastQuery = NoQuery
  /\ printed = <<>> /\ prompts = 0 /\ exitedBy = "none"
  /\ ingPc = "idle" /\ ingTree = <<>> /\ ingEntry = "none"
  /\ ingResult = NoResult
  /\ pc = "start"
  /\ current_page = 0
  /\ linksLeft = 0
  /\ timedOut = FALSE
  /\ location = <<"blank">>
  /\ files = <<>>
  /\ savedCount = 0
  /\ logged = <<>>
  /\ last = NoLast
  /\ lastStep = "init"
  /\ outcome = "running"
  /\ cleanupCount = 0
  /\ quitCalls = 0

ScraperNext ==
  \/ StartOk
  \/ StartRaises
  \/ GetLinksFound
  \/ GetLinksTimeout
  \/ GetLinksRaises
  \/ DocLinkRaises
  \/ DocVisited
  \/ NextPageAdvances
  \/ NextPageMissing
  \/ NextPageRaises
  \/ Cleanup

SpecScraper == ScraperInit /\ [][ScraperNext]_vars

(***************************************************************************)
(* Claims about scraper.py, checked under SpecScraper.                     *)
(***************************************************************************)
Lines(seq) == {seq[i] : i \in 1..Len(seq)}

\* C1: cleanup (driver.quit) runs exactly once on every exit path of
\* start_scraping: before the return it has not run, and no execution has
\* returned, by Done or by Error, without exactly one cleanup call having
\* made exactly one driver.quit call.
C1_CleanupOnEveryExit ==
  /\ cleanupCount \in {0, 1}
  /\ quitCalls = cleanupCount
  /\ (pc = "returned" <=> cleanupCount = 1)
  /\ (pc = "returned" => outcome \in {"Done", "Error"})
  /\ (outcome # "running" => pc \in {"finally", "returned"})

\* start_scraping returned through the outer except after the reload in the
\* per-document handler raised on the second page
C1_Witness ==
  /\ pc = "returned"
  /\ outcome = "Error"
  /\ last.reload = "raised"
  /\ current_page = 2
  /\ cleanupCount = 1

DocFailed(l) ==
  l.raised # "none" \/ l.extract.status \in {"timeout", "error"}

\* C2 as stated: whenever processing a document fails (click, extraction,
\* write, or navigating back), an error is logged, the listing page is
\* reloaded at the current page number, and the crawl loop goes on.
C2_Original ==
  (lastStep = "doc" /\ DocFailed(last)) =>
    /\ logged # <<>>
    /\ last.reload = "ok"
    /\ location = ReloadUrl(current_page)
    /\ pc = "docs"
    /\ outcome = "running"

ErrorLines == {"Timeout waiting for document content",
               "Error saving document"}

\* C2 as amended: an exception from the link or from driver.back() is
\* logged by the per-document handler, which reloads the listing page at
\* the current page number; when the reload succeeds the loop goes on with
\* the next link, and when the reload raises the crawl ends through the
\* outer handler.  A failure inside extract_and_save_document is logged
\* there, saves no document, and causes no reload by itself: the scraper
\* navigates back as after a success.  With no exception from the link or
\* from driver.back() the loop goes on with the next link.
C2_PerDocumentRecovery ==
  [][lastStep' = "doc" =>
       /\ (last'.raised # "none" =>
             /\ "Error processing document" \in Lines(logged')
             /\ last'.reload \in {"ok", "raised"})
       /\ (last'.reload = "ok" =>
             /\ location' = ReloadUrl(current_page)
             /\ linksLeft' = linksLeft - 1
             /\ pc' = "docs"
             /\ outcome' = "running")
       /\ (last'.reload = "raised" =>
             /\ pc' = "finally"
             /\ outcome' = "Error")
       /\ (last'.extract.status \in {"timeout", "error"} =>
             /\ Lines(logged') \cap ErrorLines # {}
             /\ savedCount' = savedCount
             /\ (last'.raised = "none" => last'.reload = "none"))
       /\ (last'.extract.status = "timeout" => files' = files)
       /\ (last'.raised = "none" =>
             /\ last'.reload = "none"
             /\ location' = <<"listing">>
             /\ linksLeft' = linksLeft - 1
             /\ pc' = "docs"
             /\ outcome' = "running")]_vars

\* driver.back() raised after an extraction timeout, and the reload worked
C2_Witness ==
  /\ lastStep = "doc"
  /\ last.raised = "back"
  /\ last.extract.status = "timeout"
  /\ last.reload = "ok"
  /\ location = ReloadUrl(current_page)
  /\ linksLeft = 1

\* C7: a written file is never overwritten by a later document, so the
\* output directory holds one file per saved document.
C7_OneFilePerSavedDocument ==
  Cardinality(DOMAIN files) = savedCount

\* C9: a timeout in get_document_links is not fatal: the list is empty, the
\* crawl stays in the loop, the next step is the next-page attempt with no
\* document processed, and that attempt advances the page, ends in Done for
\* want of a next-page control, or raises.
C9_LinkTimeoutIsSoft ==
  [][/\ (lastStep' = "get_links" /\ timedOut' =>
           /\ linksLeft' = 0
           /\ pc' = "docs"
           /\ outcome' = "running"
           /\ "Timeout waiting for document links" \in Lines(logged'))
     /\ (pc = "docs" /\ timedOut =>
           /\ lastStep' = "next_page"
           /\ files' = files
           /\ savedCount' = savedCount
           /\ \/ pc' = "listing" /\ current_page' = current_page + 1
              \/ pc' = "finally" /\ outcome' = "Done"
              \/ pc' = "finally" /\ outcome' = "Error")]_vars

\* the page after a page whose links timed out is being processed
C9_Witness ==
  /\ timedOut
  /\ lastStep = "next_page"
  /\ pc = "listing"
  /\ current_page = 2

\* C10 as stated: a visited document whose content element is absent is
\* still saved, with the body NO CONTENT FOUND, whenever the file can be
\* opened.
C10_Original ==
  (/\ lastStep = "doc"
   /\ last.extract.status # "not_run"
   /\ ~last.extract.contentPresent
   /\ last.extract.openOk) =>
    /\ last.extract.status = "saved"
    /\ \E n \in DOMAIN files : files[n].body = NoContent

\* C10 as amended: once the wait for the content element has succeeded, a
\* missing or unparsable date or a content element missing at find_element
\* never keeps a document from being saved: it is saved exactly when the
\* file can be opened.  Every file's name is
\* {ISO date or 0000-00-00}_{sanitized title}: a NO_DATE header or a date
\* text that is not a 'Month DD, YYYY' date goes with 0000-00-00,
\* "January 20, 2021" with 2021-01-20, and the title part holds no reserved
\* character; a document saved without a date element has the header
\* NO_DATE, one saved without a content element the body NO CONTENT FOUND.
\* A document whose content element does not appear within the wait is
\* logged as a timeout and not saved.
C10_SentinelsStillSaved ==
  /\ \A n \in DOMAIN files :
       /\ (files[n].date = NoDate => n.date = SentinelDate)
       /\ (files[n].date \in {<<"February", 30, 2021>>, <<"not a date">>}
             => n.date = SentinelDate)
       /\ (files[n].date = <<"January", 20, 2021>> => n.date = <<2021, 1, 20>>)
       /\ files[n].date \in DateTexts \cup {NoDate}
       /\ files[n].body \in Bodies \cup {NoContent}
       /\ Lines(n.title) \cap (ReservedChars \cup {"\n", "\r"}) = {}
       /\ Len(n.title) = Len(files[n].title)
  /\ (lastStep = "doc" /\ last.extract.status = "saved" =>
        /\ savedCount >= 1
        /\ (~last.extract.datePresent =>
              \E n \in DOMAIN files :
                n.date = SentinelDate /\ files[n].date = NoDate)
        /\ (last.extract.datePresent /\ ~last.extract.dateParses =>
              /\ "Error parsing date" \in Lines(logged)
              /\ \E n \in DOMAIN files :
                   /\ n.date = SentinelDate
                   /\ files[n].date \in DateTexts
                   /\ files[n].date # <<"January", 20, 2021>>)
        /\ (~last.extract.contentPresent =>
              \E n \in DOMAIN files : files[n].body = NoContent))
  /\ (lastStep = "doc" =>
        /\ last.extract.status \in {"not_run", "timeout", "saved", "error"}
        /\ (last.extract.status \in {"saved", "error"} =>
              (last.extract.status = "saved" <=> last.extract.openOk))
        /\ (last.extract.status = "timeout" =>
              "Timeout waiting for document content" \in Lines(logged)))

\* a document with an unparsable date and no content element at
\* find_element has been saved
C10_Witness ==
  /\ lastStep = "doc"
  /\ last.extract.status = "saved"
  /\ last.extract.datePresent
  /\ ~last.extract.dateParses
  /\ ~last.extract.contentPresent
  /\ \E n \in DOMAIN files :
       /\ n.date = SentinelDate
       /\ files[n].date = <<"February", 30, 2021>>
       /\ files[n].body = NoContent

(***************************************************************************)
(* sanitize_filename as a pure function: SpecSanitize draws an input and   *)
(* applies the function twice.                                             *)
(***************************************************************************)
SanAlphabet == ReservedChars \cup {"\n", "\r", " ", "_", "a"}

Tails == UNION {[1..n -> SanAlphabet] : n \in 0..MaxTailLen}

Pad(n) == [i \in 1..n |-> "a"]

\* inputs shorter than, as long as, and longer than the limit
SanInputs ==
  {Pad(n) \o t : n \in {0, TruncLen - 1, TruncLen, TruncLen + 1}, t \in Tails}

SanitizeInit ==
  /\ pc = "idle" /\ current_page = 0 /\ linksLeft = 0
  /\ timedOut = FALSE /\ location = <<"blank">> /\ files = <<>>
  /\ savedCount = 0 /\ logged = <<>> /\ last = NoLast /\ lastStep = "init"
  /\ outcome = "running" /\ cleanupCount = 0 /\ quitCalls = 0
  /\ ragPc = "idle" /\ folder = <<>> /\ documents = <<>>
  /\ retriever = "unset" /\ chain = NoChain /\ initError = "none"
  /\ indexFailure = "none" /\ lastLine = <<>> /\ lastQuery = NoQuery
  /\ printed = <<>> /\ prompts = 0 /\ exitedBy = "none"
  /\ ingPc = "idle" /\ ingTree = <<>> /\ ingEntry = "none"
  /\ ingResult = NoResult
  /\ sanPc = "input"
  /\ sanIn \in SanInputs
  /\ sanOnce = <<>>
  /\ sanTwice = <<>>

SanitizeOnce ==
  /\ sanPc = "input"
  /\ sanOnce' = sanitize_filename(sanIn)
  /\ sanPc' = "once"
  /\ UNCHANGED <<sanIn, sanTwice, scraperVars, ragVars, ingVars>>

SanitizeTwice ==
  /\ sanPc = "once"
  /\ sanTwice' = sanitize_filename(sanOnce)
  /\ sanPc' = "twice"
  /\ UNCHANGED <<sanIn, sanOnce, scraperVars, ragVars, ingVars>>

SanitizeNext ==
  \/ SanitizeOnce
  \/ SanitizeTwice

SpecSanitize == SanitizeInit /\ [][SanitizeNext]_vars

\* C8: sanitize_filename is idempotent, and its result is never longer than
\* 240 characters and holds no reserved character, newline or carriage
\* return.
C8_SanitizeIdempotentAndSafe ==
  /\ (sanPc \in {"once", "twice"} =>
        /\ Len(sanOnce) <= TruncLen
        /\ Len(sanOnce) <= Len(sanIn)
        /\ Lines(sanOnce) \cap (ReservedChars \cup {"\n", "\r"}) = {})
  /\ (sanPc = "twice" => sanTwice = sanOnce)

\* an over-long input with a reserved character and a newline went through
\* both applications
C8_Witness ==
  /\ sanPc = "twice"
  /\ Len(sanIn) > TruncLen
  /\ Lines(sanIn) \cap ReservedChars # {}
  /\ "\n" \in Lines(sanIn)
  /\ Len(sanOnce) = TruncLen
  /\ sanTwice = sanOnce

(***************************************************************************)
(* Directory trees, as os.walk yields them: a sequence of directories,     *)
(* each with its file names (a missing folder yields no directory).        *)
(***************************************************************************)
DocxA == <<"a", ".", "d", "o", "c", "x">>
DocxB == <<"b", ".", "d", "o", "c", "x">>
UpperDocx == <<"u", ".", "D", "O", "C", "X">>
Txt == <<"n", ".", "t", "x", "t">>
FileNames == {DocxA, DocxB, UpperDocx, Txt}

NoRepeat(seq) == \A i, j \in 1..Len(seq) : i # j => seq[i] # seq[j]

Dirs ==
  {d \in UNION {[1..n -> FileNames] : n \in 0..MaxFilesPerDir} : NoRepeat(d)}

Trees == UNION {[1..n -> Dirs] : n \in 0..MaxDirs}

\* Docx2txtLoader(file_path).load(): one Document for the file
LoaderLoad(dirIndex, filename) ==
  <<[page_content |-> <<"text of", dirIndex, filename>>,
     source |-> <<dirIndex, filename>>]>>

RECURSIVE WalkFiles(_, _, _)
\* the documents of files[k..] of directory number dirIndex
WalkFiles(dirIndex, dirFiles, k) ==
  IF k > Len(dirFiles) THEN <<>>
  ELSE (IF EndsWith(dirFiles[k], <<".", "d", "o", "c", "x">>)
        THEN LoaderLoad(dirIndex, dirFiles[k])
        ELSE <<>>) \o WalkFiles(dirIndex, dirFiles, k + 1)

RECURSIVE WalkTree(_, _)
\* the documents of directories tree[d..]
WalkTree(tree, d) ==
  IF d > Len(tree) THEN <<>>
  ELSE WalkFiles(d, tree[d], 1) \o WalkTree(tree, d + 1)

\* Ollama_RAG.py: DocxRAGSystem._load_docx_documents
load_docx_documents(tree) ==
  LET docs == WalkTree(tree, 1)
  IN IF docs = <<>>
     THEN [kind |-> "ValueError: No DOCX files found", value |-> <<>>]
     ELSE [kind |-> "documents", value |-> docs]

RECURSIVE TextLines(_)
\* " ".join(doc.page_content for doc in documents) + "\n", per file
TextLines(docs) ==
  IF docs = <<>> THEN <<>>
  ELSE <<Head(docs).page_content, <<"\n">>>> \o TextLines(Tail(docs))

\* Open_AI_RAG.py: load_docx_texts_from_folder
load_docx_texts_from_folder(tree) ==
  [kind |-> "text", value |-> TextLines(WalkTree(tree, 1))]

IngestInit ==
  /\ pc = "idle" /\ current_page = 0 /\ linksLeft = 0
  /\ timedOut = FALSE /\ location = <<"blank">> /\ files = <<>>
  /\ savedCount = 0 /\ logged = <<>> /\ last = NoLast /\ lastStep = "init"
  /\ outcome = "running" /\ cleanupCount = 0 /\ quitCalls = 0
  /\ sanPc = "idle" /\ sanIn = <<>> /\ sanOnce = <<>> /\ sanTwice = <<>>
  /\ ragPc = "idle" /\ folder = <<>> /\ documents = <<>>
  /\ retriever = "unset" /\ chain = NoChain /\ initError = "none"
  /\ indexFailure = "none" /\ lastLine = <<>> /\ lastQuery = NoQuery
  /\ printed = <<>> /\ prompts = 0 /\ exitedBy = "none"
  /\ ingPc = "start"
  /\ ingTree \in Trees
  /\ ingEntry = "none"
  /\ ingResult = NoResult

IngestOllama ==
  /\ ingPc = "start"
  /\ ingEntry' = "DocxRAGSystem._load_docx_documents"
  /\ ingResult' = load_docx_documents(ingTree)
  /\ ingPc' = "done"
  /\ UNCHANGED <<ingTree, scraperVars, sanVars, ragVars>>

IngestOpenAI ==
  /\ ingPc = "start"
  /\ ingEntry' = "load_docx_texts_from_folder"
  /\ ingResult' = load_docx_texts_from_folder(ingTree)
  /\ ingPc' = "done"
  /\ UNCHANGED <<ingTree, scraperVars, sanVars, ragVars>>

IngestNext ==
  \/ IngestOllama
  \/ IngestOpenAI

SpecIngest == IngestInit /\ [][IngestNext]_vars

\* the .docx files of a tree, counted without the code's suffix test
MatchingFiles(tree) ==
  {<<d, k>> \in (1..Len(tree)) \X (1..MaxFilesPerDir + 1) :
     k <= Len(tree[d]) /\ tree[d][k] \in {DocxA, DocxB}}

\* the records an ingestion result holds: its documents, or its
\* newline-terminated texts
RecordCount(result) ==
  IF result.kind = "documents" THEN Len(result.value)
  ELSE Cardinality({i \in 1..Len(result.value) : result.value[i] = <<"\n">>})

\* C6: at every ingestion entry point, N matching files give exactly N
\* records, and ingestion fails with the no-documents error if and only if
\* the tree holds no matching file.
C6_IngestionCountAndEmptyError ==
  ingPc = "done" =>
    LET n == Cardinality(MatchingFiles(ingTree))
    IN /\ (ingResult.kind = "ValueError: No DOCX files found" <=> n = 0)
       /\ (n > 0 => RecordCount(ingResult) = n)

(***************************************************************************)
(* Ollama_RAG.py: DocxRAGSystem and main.                                  *)
(***************************************************************************)
\* folders main is started on: trees of at most one directory
RagFolders == {t \in Trees : Len(t) <= 1}

RECURSIVE JoinContents(_)
\* "\n\n".join(doc.page_content for doc in docs)
JoinContents(docs) ==
  IF docs = <<>> THEN <<>>
  ELSE IF Len(docs) = 1 THEN <<Head(docs).page_content>>
  ELSE <<Head(docs).page_content, <<"\n\n">>>> \o JoinContents(Tail(docs))

\* create_retrieval_chain: the closure simple_chain over the whole corpus
\* when there is no retriever, the composed RunnableSequence otherwise
create_retrieval_chain(retr, docs) ==
  IF retr = "None"
  THEN [kind |-> "simple_chain", context |-> JoinContents(docs)]
  ELSE [kind |-> "RunnableSequence", context |-> <<>>]

Responses == {"answer", "I don't know"}

\* What the text-generation service does with a prompt (what it would do,
\* when none reaches it).
LlmOutcomes ==
  [llm : {"ok"}, generated : Responses] \cup
  [llm : {"raises"}, generated : {""}]

\* DocxRAGSystem.query: self.chain(question).  simple_chain is a function
\* and sends the filled template to the service; a RunnableSequence has no
\* __call__, so calling it raises TypeError before anything is sent.
query(ch, question, o) ==
  IF ch.kind = "simple_chain"
  THEN IF o.llm = "ok"
       THEN [asked |-> TRUE, llm |-> "ok", generated |-> o.generated,
             result |-> "returned", text |-> o.generated]
       ELSE [asked |-> TRUE, llm |-> "raises", generated |-> "",
             result |-> "raised", text |-> "generation error"]
  ELSE [asked |-> TRUE, llm |-> o.llm, generated |-> o.generated,
        result |-> "raised",
        text |-> "TypeError: 'RunnableSequence' object is not callable"]

Quit == <<"q", "u", "i", "t">>

\* lines input() can return
InputLines == {Quit, <<"Q", "U", "I", "T">>, <<"Q", "u", "i", "t">>,
               <<"q", "u", "i", "t", " ">>, <<"h", "i">>, <<>>}

\* the quit test without lower()
IsQuitExact(line) == line = Quit

\* query.lower() == 'quit'
IsQuit(line) == Lower(line) = Quit

RagInit ==
  /\ pc = "idle" /\ current_page = 0 /\ linksLeft = 0
  /\ timedOut = FALSE /\ location = <<"blank">> /\ files = <<>>
  /\ savedCount = 0 /\ logged = <<>> /\ last = NoLast /\ lastStep = "init"
  /\ outcome = "running" /\ cleanupCount = 0 /\ quitCalls = 0
  /\ sanPc = "idle" /\ sanIn = <<>> /\ sanOnce = <<>> /\ sanTwice = <<>>
  /\ ingPc = "idle" /\ ingTree = <<>> /\ ingEntry = "none"
  /\ ingResult = NoResult
  /\ ragPc = "start"
  /\ folder \in RagFolders
  /\ documents = <<>>
  /\ retriever = "unset"
  /\ chain = NoChain
  /\ initError = "none"
  /\ indexFailure = "none"
  /\ lastLine = <<>>
  /\ lastQuery = NoQuery
  /\ printed = <<>>
  /\ prompts = 0
  /\ exitedBy = "none"

\* __init__ leaves with an exception, which main's outer except prints
InitFails(err) ==
  /\ initError' = err
  /\ printed' = <<"Error initializing RAG system", err>>
  /\ ragPc' = "exited"
  /\ exitedBy' = "init_error"

\* _load_docx_documents raises: no documents
ConstructNoDocuments ==
  /\ ragPc = "start"
  /\ load_docx_documents(folder).kind # "documents"
  /\ InitFails(load_docx_documents(folder).kind)
  /\ UNCHANGED <<folder, documents, retriever, chain, indexFailure, lastLine,
                 lastQuery, prompts, scraperVars, sanVars, ingVars>>

\* the Chroma import and _create_vector_store succeed
ConstructIndexed ==
  /\ ragPc = "start"
  /\ load_docx_documents(folder).kind = "documents"
  /\ documents' = load_docx_documents(folder).value
  /\ retriever' = "retriever"
  /\ chain' = create_retrieval_chain("retriever", documents')
  /\ printed' = <<"Loaded documents">>
  /\ ragPc' = "prompt"
  /\ UNCHANGED <<folder, initError, indexFailure, lastLine, lastQuery,
                 prompts, exitedBy, scraperVars, sanVars, ingVars>>

\* the Chroma import raises ImportError: the except clause
ConstructImportError ==
  /\ ragPc = "start"
  /\ load_docx_documents(folder).kind = "documents"
  /\ documents' = load_docx_documents(folder).value
  /\ indexFailure' = "ImportError"
  /\ retriever' = "None"
  /\ chain' = create_retrieval_chain("None", documents')
  /\ printed' = <<"Loaded documents", "Chroma not available",
                  "No retriever available">>
  /\ ragPc' = "prompt"
  /\ UNCHANGED <<folder, initError, lastLine, lastQuery, prompts, exitedBy,
                 scraperVars, sanVars, ingVars>>

\* _create_vector_store raises (splitting, embedding or the index): not an
\* ImportError, so it leaves __init__
ConstructIndexRaises ==
  /\ ragPc = "start"
  /\ load_docx_documents(folder).kind = "documents"
  /\ documents' = load_docx_documents(folder).value
  /\ indexFailure' = "index construction raised"
  /\ InitFails("index construction raised")
  /\ UNCHANGED <<folder, retriever, chain, lastLine, lastQuery, prompts,
                 scraperVars, sanVars, ingVars>>

\* one iteration of main's loop on a line input() returned
ReadLine ==
  /\ ragPc = "prompt"
  /\ prompts < MaxPrompts
  /\ prompts' = prompts + 1
  /\ \E line \in InputLines, o \in LlmOutcomes :
       /\ lastLine' = line
       /\ IF IsQuit(line)
          THEN /\ ragPc' = "exited"
               /\ exitedBy' = "quit"
               /\ printed' = <<>>
               /\ lastQuery' = NoQuery
          ELSE /\ lastQuery' = query(chain, line, o)
               /\ printed' = IF lastQuery'.result = "returned"
                             THEN <<"Response:", lastQuery'.text>>
                             ELSE <<"Error processing query", lastQuery'.text>>
               /\ UNCHANGED <<ragPc, exitedBy>>
  /\ UNCHANGED <<folder, documents, retriever, chain, initError,
                 indexFailure, scraperVars, sanVars, ingVars>>

\* input() raises (end of input): outside the inner try, so the outer
\* except prints and main ends
ReadRaises ==
  /\ ragPc = "prompt"
  /\ prompts < MaxPrompts
  /\ prompts' = prompts + 1
  /\ ragPc' = "exited"
  /\ exitedBy' = "input_error"
  /\ printed' = <<"Error initializing RAG system", "EOFError">>
  /\ lastQuery' = NoQuery
  /\ UNCHANGED <<folder, documents, retriever, chain, initError,
                 indexFailure, lastLine, scraperVars, sanVars, ingVars>>

RagNext ==
  \/ ConstructNoDocuments
  \/ ConstructIndexed
  \/ ConstructImportError
  \/ ConstructIndexRaises
  \/ ReadLine
  \/ ReadRaises

SpecRAG == RagInit /\ [][RagNext]_vars

\* the text of every document of the folder, in order, counted without the
\* code's walk
CorpusTexts(tree) ==
  {<<"text of", x[1], tree[x[1]][x[2]]>> : x \in MatchingFiles(tree)}

\* C3: when the vector index cannot be built (the backend cannot be
\* imported, or building it raises), construction does not fail: retriever
\* is None and the chain is the fallback over the text of every document.
C3_IndexFailureFallsBack ==
  (ragPc # "start" /\ indexFailure # "none") =>
    /\ initError = "none"
    /\ retriever = "None"
    /\ chain.kind = "simple_chain"
    /\ CorpusTexts(folder) \subseteq Lines(chain.context)

\* C4: in both construction modes query returns the generated text verbatim
\* whenever the text-generation service succeeds.
C4_QueryReturnsGeneratedText ==
  (lastQuery.asked /\ lastQuery.llm = "ok") =>
    /\ lastQuery.result = "returned"
    /\ lastQuery.text = lastQuery.generated

\* C5 as stated: a line makes the loop exit only when it is the literal
\* command quit.
C5_Original ==
  exitedBy = "quit" => lastLine = Quit

QuitSpellings == {Quit, <<"Q", "U", "I", "T">>, <<"Q", "u", "i", "t">>}

\* C5 as amended: a line makes the loop exit exactly when it is quit in
\* any letter case; every other line is answered or gets a printed error
\* message, after which the loop prompts again, so a failing query never
\* ends the loop; apart from such a line only a failure of input() itself
\* ends it.
C5_LoopContinuesUntilQuit ==
  [][ragPc = "prompt" =>
       /\ (lastLine' \in QuitSpellings /\ exitedBy' # "input_error" =>
             /\ ragPc' = "exited"
             /\ exitedBy' = "quit"
             /\ ~lastQuery'.asked)
       /\ (lastLine' \notin QuitSpellings /\ exitedBy' # "input_error" =>
             /\ ragPc' = "prompt"
             /\ exitedBy' = "none"
             /\ lastQuery'.asked
             /\ \/ /\ lastQuery'.result = "returned"
                   /\ printed' = <<"Response:", lastQuery'.generated>>
                \/ /\ lastQuery'.result = "raised"
                   /\ printed'[1] = "Error processing query")
       /\ (ragPc' = "exited" => exitedBy' \in {"quit", "input_error"})]_vars

\* the loop went on after a failed query, then ended on QUIT
C5_Witness ==
  /\ ragPc = "exited"
  /\ exitedBy = "quit"
  /\ lastLine = <<"Q", "U", "I", "T">>
  /\ prompts >= 2

====
